---------------------------- MODULE Spec2Model ----------------------------
(***************************************************************************)
(* divinator 3.1.0: the control-chart zone classifier (class Zone), the    *)
(* pattern-rule engine (patterns) and the collapser (collapse).            *)
(*                                                                         *)
(* Numbers.  Sample values are integers.  The statistics the report holds  *)
(* are real numbers of the form (a + b*sqrt(r)) / d, where r is the        *)
(* discriminant n*Sum(x^2) - Sum(x)^2 of the sample (the population        *)
(* standard deviation is sqrt(r)/n).  They are kept exactly in that form   *)
(* and compared exactly: the model gives the comparisons of the code their *)
(* real-number meaning, not the rounding of IEEE doubles.                  *)
(*                                                                         *)
(* JavaScript values.  Every value that can sit in a report field is a     *)
(* record with the same fields: k is the kind ("num", "nan", "inf", "str", *)
(* "null", "undefined", "bool", "dec", "arr", "obj", "stat"), a, b, d, r    *)
(* hold a number, e                                                         *)
(* holds the elements of an array, the members of an object or the         *)
(* characters of a string.                                                 *)
(***************************************************************************)
EXTENDS Integers, Sequences, FiniteSets, TLC

VARIABLES input, flag, obj, pc, data, z, p, i, ret, ncollapse, prevret

vars == <<input, flag, obj, pc, data, z, p, i, ret, ncollapse, prevret>>

-----------------------------------------------------------------------------
(* Bounds of the model *)

\* longest exhaustively enumerated sample over SmallVals
MaxSmallLen == 4
\* longest exhaustively enumerated array of arbitrary elements
MaxRawLen == 2
\* largest window size handed to xbar
MaxSize == 3
\* longest exhaustively enumerated sample over {0, 1}
MaxBinLen == 7
\* longest sample of a fixed shape (spike, step, ramp, alternation)
MaxLen == 16
\* how often collapse is applied to one report
MaxCollapse == 2
\* largest first index, greatest length and greatest number of the runs of a
\* report the caller builds itself
MaxIdx == 4
MaxRunLen == 2
MaxRuns == 2
\* how many values of the result of xbar the model follows; the arrays whose
\* xbar is followed pass by pass are shorter
MaxOut == 4

SmallVals == {-2, -1, 0}
BinVals == {0, 1}

-----------------------------------------------------------------------------
(* Integer helpers *)

Abs(x) == IF x < 0 THEN -x ELSE x

Sgn(x) == IF x < 0 THEN -1 ELSE IF x = 0 THEN 0 ELSE 1

RECURSIVE Gcd(_, _)
Gcd(x, y) == IF y = 0 THEN Abs(x) ELSE Gcd(y, x % y)

\* floor of the square root of x >= 0, searched in lo..hi
RECURSIVE IsqrtIn(_, _, _)
IsqrtIn(lo, hi, x) ==
    IF lo >= hi THEN lo
    ELSE LET mid == (lo + hi + 1) \div 2
         IN  IF mid * mid <= x THEN IsqrtIn(mid, hi, x) ELSE IsqrtIn(lo, mid - 1, x)

Isqrt(x) == IsqrtIn(0, IF x < 46340 THEN x ELSE 46340, x)

RECURSIVE SumSeq(_)
SumSeq(s) == IF s = <<>> THEN 0 ELSE Head(s) + SumSeq(Tail(s))

RECURSIVE SumSq(_)
SumSq(s) == IF s = <<>> THEN 0 ELSE Head(s) * Head(s) + SumSq(Tail(s))

\* the integers from..to as a sequence
Range(from, to) == [x \in 1..(to - from + 1) |-> from + x - 1]

-----------------------------------------------------------------------------
(* JavaScript values *)

Num(a, b, d, r) == [k |-> "num", a |-> a, b |-> b, d |-> d, r |-> r, e |-> <<>>]

IntNum(x) == Num(x, 0, 1, 0)

\* the rational a/d, d > 0, in lowest terms
Rat(a, d) == LET g == Gcd(a, d) IN Num(a \div g, 0, d \div g, 0)

\* (a + b*sqrt(r)) / d, d > 0, r >= 0
Real(a, b, d, r) ==
    LET s == Isqrt(r)
    IN  IF s * s = r THEN Rat(a + b * s, d) ELSE Num(a, b, d, r)

Arr(s) == [k |-> "arr", a |-> 0, b |-> 0, d |-> 1, r |-> 0, e |-> s]

\* an object (no length property); e holds its members
Obj(s) == [k |-> "obj", a |-> 0, b |-> 0, d |-> 1, r |-> 0, e |-> s]

\* a statistic of an external library whose value the model does not compute;
\* id tells the statistics apart
Stat(id) == [k |-> "stat", a |-> id, b |-> 0, d |-> 1, r |-> 0, e |-> <<>>]

\* the sign of u + v*sqrt(r)
SignOf(u, v, r) ==
    IF v = 0 \/ r = 0 THEN Sgn(u)
    ELSE IF u = 0 THEN Sgn(v)
    ELSE IF Sgn(u) = Sgn(v) THEN Sgn(u)
    ELSE Sgn(u) * Sgn(u * u - v * v * r)

\* the sign of x - y - c for numbers x, y and an integer c
SignDiff(x, y, c) ==
    LET rr == IF x.b # 0 THEN x.r ELSE y.r
    IN  IF x.d = y.d
        THEN SignOf(x.a - y.a - c * x.d, x.b - y.b, rr)
        ELSE SignOf(x.a * y.d - y.a * x.d - c * x.d * y.d,
                    x.b * y.d - y.b * x.d, rr)

NumLt(x, y) == SignDiff(x, y, 0) < 0

NumEq(x, y) == SignDiff(x, y, 0) = 0

IsInteger(x) == x.b = 0 /\ x.a % x.d = 0


NaN == [k |-> "nan", a |-> 0, b |-> 0, d |-> 1, r |-> 0, e |-> <<>>]

Infinity == [k |-> "inf", a |-> 0, b |-> 0, d |-> 1, r |-> 0, e |-> <<>>]

Null == [k |-> "null", a |-> 0, b |-> 0, d |-> 1, r |-> 0, e |-> <<>>]

Undef == [k |-> "undefined", a |-> 0, b |-> 0, d |-> 1, r |-> 0, e |-> <<>>]

\* a string; e holds its characters (see below)
Str(s) == [k |-> "str", a |-> 0, b |-> 0, d |-> 1, r |-> 0, e |-> s]

\* the value true or false
Bool(b) == [k |-> "bool", a |-> IF b THEN 1 ELSE 0, b |-> 0, d |-> 1, r |-> 0, e |-> <<>>]

\* JavaScript truthiness: neither undefined, null, NaN, 0 nor ""
Truthy(x) ==
    /\ x.k \notin {"undefined", "null", "nan"}
    /\ ~(x.k = "num" /\ x.a = 0 /\ x.b = 0)
    /\ ~(x.k = "str" /\ x.e = <<>>)

-----------------------------------------------------------------------------
(* Strings: sequences of characters.  A character is a record: c = "d" is  *)
(* the decimal digit v, c = "-" the minus sign, c = ":" the colon, c = " " *)
(* a blank, c = "x" a letter, and c = "#" stands for the whole shortest    *)
(* decimal numeral of the non-integer number n, which parseFloat reads     *)
(* back as n.                                                              *)

Ch(c, v, n) == [c |-> c, v |-> v, n |-> n]

Colon == Ch(":", 0, NaN)

RECURSIVE Digits(_)
Digits(x) ==
    IF x < 10 THEN <<Ch("d", x, NaN)>>
    ELSE Digits(x \div 10) \o <<Ch("d", x % 10, NaN)>>

\* Number.prototype.toString
NumToString(x) ==
    IF IsInteger(x)
    THEN LET v == x.a \div x.d
         IN  IF v < 0 THEN <<Ch("-", 0, NaN)>> \o Digits(-v) ELSE Digits(v)
    ELSE <<Ch("#", 0, x)>>

\* the value of the longest prefix of digits of s, and whether there is one
RECURSIVE DigitPrefix(_, _, _)
DigitPrefix(s, acc, seen) ==
    IF s # <<>> /\ Head(s).c = "d"
    THEN DigitPrefix(Tail(s), 10 * acc + Head(s).v, TRUE)
    ELSE [v |-> acc, seen |-> seen]

\* parseFloat of a string: leading blanks are skipped, then the longest
\* prefix that is a numeral is read
RECURSIVE ParseFloat(_)
ParseFloat(s) ==
    IF s = <<>> THEN NaN
    ELSE IF Head(s).c = " " THEN ParseFloat(Tail(s))
    ELSE IF Head(s).c = "#" THEN Head(s).n
    ELSE IF Head(s).c = "-"
         THEN LET q == DigitPrefix(Tail(s), 0, FALSE)
              IN  IF q.seen THEN IntNum(-q.v) ELSE NaN
    ELSE LET q == DigitPrefix(s, 0, FALSE)
         IN  IF q.seen THEN IntNum(q.v) ELSE NaN

\* String.prototype.split(":"): cur is the piece being read
RECURSIVE SplitColon(_, _)
SplitColon(s, cur) ==
    IF s = <<>> THEN <<cur>>
    ELSE IF Head(s).c = ":" THEN <<cur>> \o SplitColon(Tail(s), <<>>)
    ELSE SplitColon(Tail(s), Append(cur, Head(s)))

\* str.replace( /^:/, "" )
StripLeadingColon(s) == IF s # <<>> /\ Head(s).c = ":" THEN Tail(s) ELSE s

-----------------------------------------------------------------------------
(* validate *)

\* parseFloat( v ) of an element of the array: v is made a string first
ParseFloatOf(v) ==
    CASE v.k = "num" -> ParseFloat(NumToString(v))
      [] v.k = "str" -> ParseFloat(v.e)
      [] v.k = "inf" -> Infinity
      [] v.k \in {"nan", "null", "undefined"} -> NaN

\* validate with _data.length in place of _data.some( Number.isFinite )
validateNonEmpty(arr) ==
    IF arr.k # "arr" THEN [ok |-> FALSE, v |-> <<>>, arg |-> arr]
    ELSE LET parsed == [x \in 1..Len(arr.e) |-> ParseFloatOf(arr.e[x])]
         IN  IF Len(parsed) > 0
             THEN [ok |-> TRUE, v |-> parsed, arg |-> arr]
             ELSE [ok |-> FALSE, v |-> <<>>, arg |-> arr]

\* validate that converts the elements in place, data[ i ] = parseFloat(
\* data[ i ] ), in place of building a new array with data.map
validateInPlace(arr) ==
    IF arr.k # "arr" THEN [ok |-> FALSE, v |-> <<>>, arg |-> arr]
    ELSE LET parsed == [x \in 1..Len(arr.e) |-> ParseFloatOf(arr.e[x])]
         IN  IF \E x \in 1..Len(parsed) : parsed[x].k = "num"
             THEN [ok |-> TRUE, v |-> parsed, arg |-> Arr(parsed)]
             ELSE [ok |-> FALSE, v |-> <<>>, arg |-> Arr(parsed)]

\* validate( data ): throws when data is no array; the array is mapped
\* through parseFloat; the call throws when no element is a finite number.
\* ok tells that the call returned, v is the array returned (a new array,
\* built by data.map), arg the argument as the call leaves it
validate(arr) ==
    IF arr.k # "arr" THEN [ok |-> FALSE, v |-> <<>>, arg |-> arr]
    ELSE LET parsed == [x \in 1..Len(arr.e) |-> ParseFloatOf(arr.e[x])]
         IN  IF \E x \in 1..Len(parsed) : parsed[x].k = "num"
             THEN [ok |-> TRUE, v |-> parsed, arg |-> arr]
             ELSE [ok |-> FALSE, v |-> <<>>, arg |-> arr]

\* the integers of an array of finite whole numbers
Values(v) == [x \in 1..Len(v) |-> v[x].a \div v[x].d]

\* every number of the array is finite
AllFinite(v) == \A x \in 1..Len(v) : v[x].k = "num"

-----------------------------------------------------------------------------
(* Statistics of simple-statistics, by their definitions *)

\* n * Sum(x^2) - Sum(x)^2: n^2 times the population variance
Disc(d) == Len(d) * SumSq(d) - SumSeq(d) * SumSeq(d)

\* ss.mean
Mean(d) == Rat(SumSeq(d), Len(d))

\* ss.standardDeviation (population)
Std(d) == Real(0, 1, Len(d), Disc(d))

\* mean + f * std
MeanPlus(d, f) == Real(SumSeq(d), f, Len(d), Disc(d))

\* ss.zScore( x, mean, std ) = ( x - mean ) / std, which is
\* ( n*x - S ) * sqrt( D ) / D; when std is 0 every value equals the mean and
\* the quotient is 0 / 0
zScore(x, d) ==
    IF Disc(d) = 0 THEN NaN
    ELSE Real(0, Len(d) * x - SumSeq(d), Disc(d), Disc(d))

\* sort( ( a, b ) => a - b ) of integers: the element at position x goes
\* behind the smaller ones and the equal ones before it (the sort is stable)
SortAsc(s) ==
    LET n == Len(s)
        rank(x) == Cardinality({y \in 1..n : s[y] < s[x] \/ (s[y] = s[x] /\ y < x)}) + 1
    IN  [q \in 1..n |-> s[CHOOSE x \in 1..n : rank(x) = q]]

\* ss.median
Median(d) ==
    LET s == SortAsc(d)
        n == Len(d)
    IN  IF n % 2 = 1 THEN IntNum(s[(n + 1) \div 2])
        ELSE Rat(s[n \div 2] + s[n \div 2 + 1], 2)

Min(d) == CHOOSE x \in {d[j] : j \in 1..Len(d)} : \A j \in 1..Len(d) : x <= d[j]

Max(d) == CHOOSE x \in {d[j] : j \in 1..Len(d)} : \A j \in 1..Len(d) : x >= d[j]

-----------------------------------------------------------------------------
(* class Zone *)

\* which without its closing return "X": a value in no zone gets undefined
whichNoDefault(zones, val) ==
    LET hit == {x \in 1..Len(zones) :
                    /\ ~NumLt(IntNum(val), zones[x].min)
                    /\ NumLt(IntNum(val), zones[x].max)}
    IN  IF hit = {} THEN "undefined"
        ELSE zones[CHOOSE x \in hit : \A y \in hit : x <= y].name

\* which with val <= zone.max in place of val < zone.max
whichClosed(zones, val) ==
    LET hit == {x \in 1..Len(zones) :
                    /\ ~NumLt(IntNum(val), zones[x].min)
                    /\ ~NumLt(zones[x].max, IntNum(val))}
    IN  IF hit = {} THEN "X"
        ELSE zones[CHOOSE x \in hit : \A y \in hit : x <= y].name

\* which( val ): the first zone, in the order C, B, A, with min <= val < max
which(zones, val) ==
    LET hit == {x \in 1..Len(zones) :
                    /\ ~NumLt(IntNum(val), zones[x].min)
                    /\ NumLt(IntNum(val), zones[x].max)}
    IN  IF hit = {} THEN "X"
        ELSE zones[CHOOSE x \in hit : \A y \in hit : x <= y].name

ZoneNames == <<"C", "B", "A">>

\* the zone of index x - 1 of [ "C", "B", "A" ]: factor = index + 1
\* the zone bounds without the factor: mean +/- std for every zone
ZoneBoundsNoFactor(d, x) ==
    [t |-> "object", name |-> ZoneNames[x],
     max |-> MeanPlus(d, 1), min |-> MeanPlus(d, -1)]

\* the zone bounds without the standard deviation: mean +/- factor
ZoneBoundsNoStd(d, x) ==
    [t |-> "object", name |-> ZoneNames[x],
     max |-> Rat(SumSeq(d) + x * Len(d), Len(d)),
     min |-> Rat(SumSeq(d) - x * Len(d), Len(d))]

ZoneBounds(d, x) ==
    [t |-> "object", name |-> ZoneNames[x],
     max |-> MeanPlus(d, x), min |-> MeanPlus(d, -x)]

\* new Zone( data ), data validated
Zone(d) ==
    LET zones == [x \in 1..3 |-> ZoneBounds(d, x)]
    IN  [data |-> d, mean |-> Mean(d), std |-> Std(d), median |-> Median(d),
         zones |-> zones,
         dataZones |-> [x \in 1..Len(d) |-> which(zones, d[x])]]

NoZone == [data |-> <<>>, mean |-> NaN, std |-> NaN, median |-> NaN,
           zones |-> <<>>, dataZones |-> <<>>]

-----------------------------------------------------------------------------
(* The eight rules of patterns, for the window starting at index i         *)
(* (indices are those of JavaScript, from 0).  Each gives the points       *)
(* gathered and whether the run is emitted.                                *)

Undefined == [t |-> "undefined"]

\* z[ "zones" ][ j ]: an element of the array of zone objects
ZonesAt(zz, j) == IF j + 1 \in DOMAIN zz.zones THEN zz.zones[j + 1] ELSE Undefined

\* v === s for a string s: an object is never strictly equal to a string
IsStr(v, s) == v.t = "string" /\ v.s = s

\* _data[ j ] !== undefined
HasData(d, j) == j + 1 \in DOMAIN d

\* the indices j of i..i+len-1 with z[ "zones" ][ j ] !== undefined
ZonePts(zz, idx, len) ==
    SelectSeq(Range(idx, idx + len - 1), LAMBDA j : ZonesAt(zz, j).t # "undefined")

AlphaAt(zz, idx) == IsStr(ZonesAt(zz, idx), "X")

BravoAt(zz, idx) ==
    LET pts == ZonePts(zz, idx, 3)
        _bravo == Len(SelectSeq(pts, LAMBDA j :
                         IsStr(ZonesAt(zz, j), "A") \/ IsStr(ZonesAt(zz, j), "X")))
    IN  [pts |-> pts, emit |-> _bravo >= 2 /\ Len(pts) = 3]

CharlieAt(zz, idx) ==
    LET pts == ZonePts(zz, idx, 5)
        _charlie == Len(SelectSeq(pts, LAMBDA j : ~IsStr(ZonesAt(zz, j), "C")))
    IN  [pts |-> pts, emit |-> _charlie >= 4 /\ Len(pts) = 5]

\* delta that counts every point off the mean, whatever its side
DeltaAtAnySide(d, mean, idx) ==
    LET pts == SelectSeq(Range(idx, idx + 6), LAMBDA j : HasData(d, j))
        _delta == Len(SelectSeq(pts, LAMBDA j :
                         \/ NumLt(mean, IntNum(d[j + 1]))
                         \/ NumLt(IntNum(d[j + 1]), mean)))
    IN  [pts |-> pts, emit |-> pts # <<>> /\ _delta >= 7]

\* delta with the threshold 6 in place of 7
DeltaAtSix(d, mean, idx) ==
    LET pts == SelectSeq(Range(idx, idx + 6), LAMBDA j : HasData(d, j))
        above == NumLt(mean, IntNum(d[pts[1] + 1]))
        _delta == Len(SelectSeq(pts, LAMBDA j :
                         \/ above /\ NumLt(mean, IntNum(d[j + 1]))
                         \/ ~above /\ NumLt(IntNum(d[j + 1]), mean)))
    IN  [pts |-> pts, emit |-> pts # <<>> /\ _delta >= 6]

DeltaAt(d, mean, idx) ==
    LET pts == SelectSeq(Range(idx, idx + 6), LAMBDA j : HasData(d, j))
        above == NumLt(mean, IntNum(d[pts[1] + 1]))
        _delta == Len(SelectSeq(pts, LAMBDA j :
                         \/ above /\ NumLt(mean, IntNum(d[j + 1]))
                         \/ ~above /\ NumLt(IntNum(d[j + 1]), mean)))
    IN  [pts |-> pts, emit |-> pts # <<>> /\ _delta >= 7]

\* the loop of echo from index j to index last; st = [pts, prev, dir, n]
RECURSIVE EchoLoop(_, _, _, _)
EchoLoop(d, j, last, st) ==
    IF j > last THEN st
    ELSE IF ~HasData(d, j) THEN EchoLoop(d, j + 1, last, st)
    ELSE LET v == d[j + 1]
             push == [st EXCEPT !.pts = Append(@, j), !.prev = v, !.n = @ + 1]
         IN  IF Len(st.pts) = 0 THEN EchoLoop(d, j + 1, last, push)
             ELSE IF Len(st.pts) = 1
                  THEN EchoLoop(d, j + 1, last,
                           [push EXCEPT !.dir = IF v > st.prev THEN "up" ELSE "down"])
             ELSE IF st.dir = "up" /\ v > st.prev THEN EchoLoop(d, j + 1, last, push)
             ELSE IF st.dir = "down" /\ v < st.prev THEN EchoLoop(d, j + 1, last, push)
             ELSE EchoLoop(d, j + 1, last, st)

EchoAt(d, idx) ==
    LET st == EchoLoop(d, idx, idx + 6, [pts |-> <<>>, prev |-> 0, dir |-> "", n |-> 0])
    IN  [pts |-> st.pts, emit |-> st.n >= 7]

FoxtrotAt(zz, idx) ==
    LET pts == ZonePts(zz, idx, 8)
        _foxtrot == Len(SelectSeq(pts, LAMBDA j : ~IsStr(ZonesAt(zz, j), "C")))
    IN  [pts |-> pts, emit |-> _foxtrot >= 8]

GolfAt(zz, idx) ==
    LET pts == ZonePts(zz, idx, 15)
        golf == Len(SelectSeq(pts, LAMBDA j : IsStr(ZonesAt(zz, j), "C")))
    IN  [pts |-> pts, emit |-> golf >= 15]

\* the loop of hotel without the break on a value equal to the one before it
RECURSIVE HotelLoopNoEqualBreak(_, _, _, _)
HotelLoopNoEqualBreak(d, j, last, st) ==
    IF j > last THEN st
    ELSE IF ~HasData(d, j) THEN HotelLoopNoEqualBreak(d, j + 1, last, st)
    ELSE LET v == d[j + 1]
             push == [st EXCEPT !.pts = Append(@, j), !.prev = v, !.n = @ + 1]
         IN  IF Len(st.pts) = 0 THEN HotelLoopNoEqualBreak(d, j + 1, last, push)
             ELSE IF Len(st.pts) = 1
                  THEN HotelLoopNoEqualBreak(d, j + 1, last,
                           [push EXCEPT !.dir = IF v > st.prev THEN "up" ELSE "down"])
             ELSE IF v > st.prev /\ st.dir = "down"
                  THEN HotelLoopNoEqualBreak(d, j + 1, last, [push EXCEPT !.dir = "up"])
             ELSE IF v < st.prev /\ st.dir = "down" THEN st
             ELSE IF v < st.prev /\ st.dir = "up"
                  THEN HotelLoopNoEqualBreak(d, j + 1, last, [push EXCEPT !.dir = "down"])
             ELSE IF v > st.prev /\ st.dir = "up" THEN st
             ELSE HotelLoopNoEqualBreak(d, j + 1, last, push)

\* the loop of hotel from index j to index last; st = [pts, prev, dir, n]
RECURSIVE HotelLoop(_, _, _, _)
HotelLoop(d, j, last, st) ==
    IF j > last THEN st
    ELSE IF ~HasData(d, j) THEN HotelLoop(d, j + 1, last, st)
    ELSE LET v == d[j + 1]
             push == [st EXCEPT !.pts = Append(@, j), !.prev = v, !.n = @ + 1]
         IN  IF Len(st.pts) = 0 THEN HotelLoop(d, j + 1, last, push)
             ELSE IF v = st.prev THEN st
             ELSE IF Len(st.pts) = 1
                  THEN HotelLoop(d, j + 1, last,
                           [push EXCEPT !.dir = IF v > st.prev THEN "up" ELSE "down"])
             ELSE IF v > st.prev /\ st.dir = "down"
                  THEN HotelLoop(d, j + 1, last, [push EXCEPT !.dir = "up"])
             ELSE IF v < st.prev /\ st.dir = "down" THEN st
             ELSE IF v < st.prev /\ st.dir = "up"
                  THEN HotelLoop(d, j + 1, last, [push EXCEPT !.dir = "down"])
             ELSE IF v > st.prev /\ st.dir = "up" THEN st
             ELSE HotelLoop(d, j + 1, last, push)

HotelAt(d, idx) ==
    LET st == HotelLoop(d, idx, idx + 13, [pts |-> <<>>, prev |-> 0, dir |-> "", n |-> 0])
    IN  [pts |-> st.pts, emit |-> st.n >= 14]

-----------------------------------------------------------------------------
(* The sibling filters whose results the report holds *)

\* zscore( data ), threshold 3: the values x with |( x - mean ) / std| > 3
zscore(d) ==
    LET n == Len(d)
        S == SumSeq(d)
    IN  SelectSeq(d, LAMBDA x : Disc(d) > 0 /\ (n * x - S) * (n * x - S) > 9 * Disc(d))

\* iqr( data ), val 1.5: the sorted values outside [q1 - 1.5 iqr, q3 + 1.5 iqr]
iqr(d) ==
    LET sortedData == SortAsc(d)
        n == Len(d)
        q1 == sortedData[(n \div 4) + 1]
        q3 == sortedData[((3 * n) \div 4) + 1]
    IN  SelectSeq(sortedData, LAMBDA x :
            2 * x < 2 * q1 - 3 * (q3 - q1) \/ 2 * x > 2 * q3 + 3 * (q3 - q1))

\* twice the median of the integers s
Median2(s) ==
    LET t == SortAsc(s)
        n == Len(s)
    IN  IF n % 2 = 1 THEN 2 * t[(n + 1) \div 2] ELSE t[n \div 2] + t[n \div 2 + 1]

\* modifiedZscore( data ), threshold 3.5: the values x with
\* |0.6745 * ( x - median ) / mad| > 3.5, mad = ss.medianAbsoluteDeviation the
\* median of the |x - median|.  With dev2 = 2 * |x - median| and mad4 = 4 * mad
\* that is 6745 * dev2 > 17500 * mad4; when mad is 0 the quotient is NaN for
\* x = median and Infinity for the other values
modifiedZscore(d) ==
    LET med2 == Median2(d)
        mad4 == Median2([x \in 1..Len(d) |-> Abs(2 * d[x] - med2)])
    IN  SelectSeq(d, LAMBDA x :
            IF mad4 = 0 THEN 2 * x # med2
            ELSE 6745 * Abs(2 * x - med2) > 17500 * mad4)

\* a string without its leading and trailing blanks
RECURSIVE Trim(_)
Trim(s) ==
    IF s = <<>> THEN s
    ELSE IF Head(s).c = " " THEN Trim(Tail(s))
    ELSE IF s[Len(s)].c = " " THEN Trim(SubSeq(s, 1, Len(s) - 1))
    ELSE s

\* the conversion of a value to a number (the unary plus, the operand of a
\* comparison): null and the blank string give 0, a string that is a numeral
\* and nothing else its value, every other string NaN
ToNumber(v) ==
    CASE v.k = "num" -> v
      [] v.k = "inf" -> Infinity
      [] v.k = "null" -> IntNum(0)
      [] v.k \in {"nan", "undefined"} -> NaN
      [] v.k = "str" ->
             LET t == Trim(v.e)
                 body == IF t # <<>> /\ Head(t).c = "-" THEN Tail(t) ELSE t
             IN  IF t = <<>> THEN IntNum(0)
                 ELSE IF body # <<>> /\ \A x \in 1..Len(body) : body[x].c = "d"
                      THEN ParseFloat(t)
                 ELSE IF Len(t) = 1 /\ t[1].c = "#" THEN t[1].n
                 ELSE NaN

\* iqr( data, val ) after validate: val is 1.5 when the argument is left out
\* and when +val is no finite number
iqrVal(d, val) ==
    LET given == IF val.k = "undefined" THEN Rat(3, 2) ELSE ToNumber(val)
        f == IF given.k = "num" THEN given ELSE Rat(3, 2)
        sortedData == SortAsc(d)
        n == Len(d)
        q1 == sortedData[(n \div 4) + 1]
        q3 == sortedData[((3 * n) \div 4) + 1]
    IN  [ok |-> TRUE,
         v |-> SelectSeq(sortedData, LAMBDA x :
                   \/ f.d * x < f.d * q1 - f.a * (q3 - q1)
                   \/ f.d * x > f.d * q3 + f.a * (q3 - q1))]

\* what zscore and modifiedZscore make of their argument threshold, dflt its
\* default: a truthy value goes through parseFloat and the call throws when
\* that gives no finite number; a falsy value (NaN, null, 0, "") is kept.  t is
\* the number the comparison > threshold reads
Threshold(threshold, dflt) ==
    LET given == IF threshold.k = "undefined" THEN dflt ELSE threshold
        parsed == IF Truthy(given) THEN ParseFloatOf(given) ELSE given
    IN  [ok |-> ~(Truthy(given) /\ parsed.k # "num"), t |-> ToNumber(parsed)]

\* zscore( data, threshold ) after validate: |( x - mean ) / std| > threshold,
\* false when the quotient (std = 0) or the threshold is NaN
zscoreThreshold(d, threshold) ==
    LET th == Threshold(threshold, IntNum(3))
        n == Len(d)
        S == SumSeq(d)
    IN  [ok |-> th.ok,
         v |-> IF ~th.ok THEN <<>>
               ELSE SelectSeq(d, LAMBDA x :
                        /\ th.t.k = "num"
                        /\ Disc(d) > 0
                        /\ \/ th.t.a < 0
                           \/ th.t.d * th.t.d * (n * x - S) * (n * x - S)
                                  > th.t.a * th.t.a * Disc(d))]

\* modifiedZscore( data, threshold ) after validate:
\* |0.6745 * ( x - median ) / mad| > threshold, with dev2 and mad4 as above
modifiedZscoreThreshold(d, threshold) ==
    LET th == Threshold(threshold, Rat(7, 2))
        med2 == Median2(d)
        mad4 == Median2([x \in 1..Len(d) |-> Abs(2 * d[x] - med2)])
    IN  [ok |-> th.ok,
         v |-> IF ~th.ok THEN <<>>
               ELSE SelectSeq(d, LAMBDA x :
                        /\ th.t.k = "num"
                        /\ IF mad4 = 0 THEN 2 * x # med2
                           ELSE \/ th.t.a < 0
                                \/ 13490 * Abs(2 * x - med2) * th.t.d
                                       > 10000 * th.t.a * mad4)]

NumArr(s) == Arr([x \in 1..Len(s) |-> IntNum(s[x])])

-----------------------------------------------------------------------------
(* iqr of index.js *)

\* the code unit of a character of a numeral: "-" comes before the digits
CharCode(ch) == IF ch.c = "-" THEN 45 ELSE 48 + ch.v

\* s comes before t in the order of sort() without a compare function: by
\* code units, a proper prefix first
RECURSIVE LexLess(_, _)
LexLess(s, t) ==
    IF t = <<>> THEN FALSE
    ELSE IF s = <<>> THEN TRUE
    ELSE IF CharCode(Head(s)) # CharCode(Head(t)) THEN CharCode(Head(s)) < CharCode(Head(t))
    ELSE LexLess(Tail(s), Tail(t))

\* sort() of whole numbers: by their strings (the sort is stable)
SortLex(s) ==
    LET n == Len(s)
        before(y, x) == \/ LexLess(NumToString(IntNum(s[y])), NumToString(IntNum(s[x])))
                        \/ (s[y] = s[x] /\ y < x)
        rank == [x \in 1..n |-> Cardinality({y \in 1..n : before(y, x)}) + 1]
    IN  [q \in 1..n |-> s[CHOOSE x \in 1..n : rank[x] = q]]

\* twice _25th and twice _75th for the sorted array: the medians of bottom
\* and top, the two halves, the element in the middle of an odd length being
\* in both
HalfMedians(_sorted) ==
    LET n == Len(_sorted)
        top == SubSeq(_sorted, (n \div 2) + 1, n)
        bottom == IF n % 2 = 1 THEN Append(SubSeq(_sorted, 1, n \div 2), top[1])
                  ELSE SubSeq(_sorted, 1, n \div 2)
    IN  [q1 |-> Median2(bottom), q3 |-> Median2(top)]

\* resp for the data d, the half medians q and the number val
Flags(d, q, val) ==
    Arr([x \in 1..Len(d) |->
            Bool(\/ 2 * val.d * d[x] > val.d * q.q3 + val.a * (q.q3 - q.q1)
                 \/ 2 * val.d * d[x] < val.d * q.q1 - val.a * (q.q3 - q.q1))])

\* iqr( data, factor ) of index.js for a non-empty array of whole numbers and
\* a factor that is left out or a finite number
iqr_index(d, factor) ==
    LET val == IF Truthy(factor) THEN ParseFloatOf(factor) ELSE Rat(3, 2)
    IN  Flags(d, HalfMedians(SortLex(d)), val)

-----------------------------------------------------------------------------
(* xbar *)

\* the defaults of obj.size and obj.d
DefaultSize == 5
DefaultD == 10

RECURSIVE Pow10(_)
Pow10(k) == IF k = 0 THEN 1 ELSE 10 * Pow10(k - 1)

\* a number with up to DefaultD decimals that is no fraction the model can
\* hold: b is its sign, a its integer part, d and r the first and the second
\* half of its DefaultD decimals, read as integers
Dec(sign, int, hi, lo) ==
    [k |-> "dec", a |-> int, b |-> sign, d |-> hi, r |-> lo, e |-> <<>>]

\* parseFloat( ( sum / num ).toFixed( DefaultD ) ): the quotient rounded to
\* DefaultD decimals, half away from zero.  The decimals are found by long
\* division, half of them at a time; a quotient that has no more decimals
\* comes back as it is
ToFixedParse(sum, num) ==
    LET half == Pow10(DefaultD \div 2)
        m == Abs(sum)
        q == m \div num
        hi == ((m % num) * half) \div num
        r1 == ((m % num) * half) % num
        lo == (r1 * half) \div num
        r2 == (r1 * half) % num
        lo1 == IF 2 * r2 >= num THEN lo + 1 ELSE lo
        hi1 == IF lo1 = half THEN hi + 1 ELSE hi
        q1 == IF hi1 = half THEN q + 1 ELSE q
    IN  IF r2 = 0 THEN Rat(sum, num)
        ELSE IF lo1 % half = 0 /\ hi1 % half = 0 THEN IntNum(Sgn(sum) * q1)
        ELSE Dec(Sgn(sum), q1, hi1 % half, lo1 % half)

\* xbar without the splice: the array keeps a length that is no multiple of
\* the size
xbarNoSplice(arr, size, front) ==
    LET num == size
        count == (Len(arr) + num - 1) \div num
        chunk(k) == SubSeq(arr, (k - 1) * num + 1,
                           IF k * num < Len(arr) THEN k * num ELSE Len(arr))
    IN  Arr([k \in 1..count |-> ToFixedParse(SumSeq(chunk(k)), num)])

\* xbar( arr, { size, front } ) for an array of whole numbers and a whole
\* size > 0: _arr is the copy without its first (front) or last remainder
\* elements; the loop takes the slices of num elements from 0 on
xbar(arr, size, front) ==
    LET num == size
        remainder == Len(arr) % num
        _arr == IF remainder = 0 THEN arr
                ELSE IF front THEN SubSeq(arr, remainder + 1, Len(arr))
                ELSE SubSeq(arr, 1, Len(arr) - remainder)
        count == (Len(_arr) + num - 1) \div num
        chunk(k) == SubSeq(_arr, (k - 1) * num + 1,
                           IF k * num < Len(_arr) THEN k * num ELSE Len(_arr))
    IN  Arr([k \in 1..count |-> ToFixedParse(SumSeq(chunk(k)), num)])

-----------------------------------------------------------------------------
(* The report of patterns *)

SigmaFields == {"1sigma", "2sigma", "3sigma", "4sigma", "5sigma"}

RuleFields == {"alpha", "bravo", "charlie", "delta", "echo", "foxtrot", "golf", "hotel"}

\* statistics of simple-statistics and jstat whose values the model leaves open
OpenFields == {"jarqueBera", "kurtosis", "medianAbsoluteDeviation", "mode",
               "sampleCorrelation", "skewness"}

Fields == SigmaFields \cup RuleFields \cup OpenFields \cup
          {"max", "mean", "median", "min", "outliers", "spread",
           "standardDeviation", "pValue", "zScoreMin", "poisson"}

SigmaFactor(f) ==
    CASE f = "1sigma" -> 1 [] f = "2sigma" -> 2 [] f = "3sigma" -> 3
      [] f = "4sigma" -> 4 [] f = "5sigma" -> 5

\* the object p of patterns as first built
NewReport(d) ==
    [f \in Fields |->
        CASE f \in SigmaFields ->
                 Arr(<<MeanPlus(d, -SigmaFactor(f)), MeanPlus(d, SigmaFactor(f))>>)
          [] f \in RuleFields -> Arr(<<>>)
          [] f = "jarqueBera" -> Obj(<<Stat(1), Stat(2)>>)
          [] f = "kurtosis" -> Stat(3)
          [] f = "medianAbsoluteDeviation" -> Stat(4)
          [] f = "mode" -> Stat(5)
          [] f = "sampleCorrelation" -> Stat(6)
          [] f = "skewness" -> Stat(7)
          [] f = "pValue" -> zScore(Max(d), d)
          [] f = "zScoreMin" -> zScore(Min(d), d)
          [] f = "max" -> IntNum(Max(d))
          [] f = "mean" -> Mean(d)
          [] f = "median" -> Median(d)
          [] f = "min" -> IntNum(Min(d))
          [] f = "outliers" -> Obj(<<NumArr(zscore(d)), NumArr(modifiedZscore(d)), NumArr(iqr(d))>>)
          [] f = "spread" -> IntNum(Max(d) - Min(d))
          [] f = "standardDeviation" -> Std(d)
          [] f = "poisson" -> Obj(<<>>)]

\* p[ me ].unshift( pts ) in place of push: the newest run goes first
EmitFront(field, res) == IF res.emit THEN Arr(<<NumArr(res.pts)>> \o field.e) ELSE field

\* p[ me ].push( pts ) when the rule emits
Emit(field, res) == IF res.emit THEN Arr(Append(field.e, NumArr(res.pts))) ELSE field

\* one pass of the loop of patterns over zoneVals, at index idx
ScanAt(rep, zz, d, idx) ==
    [rep EXCEPT
        !["alpha"] = IF AlphaAt(zz, idx) THEN Arr(Append(@.e, IntNum(idx))) ELSE @,
        !["bravo"] = Emit(@, BravoAt(zz, idx)),
        !["charlie"] = Emit(@, CharlieAt(zz, idx)),
        !["delta"] = Emit(@, DeltaAt(d, zz.mean, idx)),
        !["echo"] = Emit(@, EchoAt(d, idx)),
        !["foxtrot"] = Emit(@, FoxtrotAt(zz, idx)),
        !["golf"] = Emit(@, GolfAt(zz, idx)),
        !["hotel"] = Emit(@, HotelAt(d, idx))]

\* the number of passes of the loop: zoneVals.length, zoneVals = z[ "zones" ]
ScanLength(zz) == Len(zz.zones)

\* the keys of p[ "poisson" ]: the values of the sample, each once
Distinct(s) ==
    LET first == SelectSeq(Range(1, Len(s)), LAMBDA x : \A y \in 1..(x - 1) : s[y] # s[x])
    IN  [q \in 1..Len(first) |-> s[first[q]]]

WithPoisson(rep, d) == [rep EXCEPT !["poisson"] = Obj(NumArr(Distinct(d)).e)]

-----------------------------------------------------------------------------
(* collapse *)

\* c = c.concat( p[ j ][ i ] ) over the elements of a field
RECURSIVE ConcatAll(_)
ConcatAll(s) ==
    IF s = <<>> THEN <<>>
    ELSE (IF Head(s).k = "arr" THEN Head(s).e ELSE <<Head(s)>>) \o ConcatAll(Tail(s))

\* [ ...new Set( c ) ]: the first occurrence of every value, in order
SetOf(s) ==
    LET first == SelectSeq(Range(1, Len(s)),
                           LAMBDA x : \A y \in 1..(x - 1) : ~NumEq(s[y], s[x]))
    IN  [q \in 1..Len(first) |-> s[first[q]]]

\* sort( ( a, b ) => a - b ) of numbers
SortNum(s) ==
    LET n == Len(s)
        rank(x) == Cardinality({y \in 1..n :
                       NumLt(s[y], s[x]) \/ (NumEq(s[y], s[x]) /\ y < x)}) + 1
    IN  [q \in 1..n |-> s[CHOOSE x \in 1..n : rank(x) = q]]

\* z[ i ] > prev in place of z[ i ] === prev + 1
IsNextGreater(zs, x, prev) ==
    x \in DOMAIN zs /\ prev.k = "num" /\ SignDiff(zs[x], prev, 0) > 0

\* z[ i ] === prev + 1
IsNext(zs, x, prev) ==
    x \in DOMAIN zs /\ prev.k = "num" /\ SignDiff(zs[x], prev, 1) = 0

\* parseInt( s, radix ) for a string of digits, as map calls it with the
\* index for radix: radix 0 reads decimal, radix 1 gives NaN, a radix from 2
\* reads the digits below it
RECURSIVE RadixPrefix(_, _, _, _)
RadixPrefix(s, radix, acc, seen) ==
    IF s # <<>> /\ Head(s).c = "d" /\ Head(s).v < radix
    THEN RadixPrefix(Tail(s), radix, radix * acc + Head(s).v, TRUE)
    ELSE [v |-> acc, seen |-> seen]

ParseIntAt(s, index) ==
    IF index = 1 \/ s = <<>> \/ Head(s).c # "d" THEN NaN
    ELSE LET q == RadixPrefix(s, IF index = 0 THEN 10 ELSE index, 0, FALSE)
         IN  IF q.seen THEN IntNum(q.v) ELSE NaN

\* str.split( ":" ).map( parseInt ) in place of map( parseFloat )
ParseRunParseInt(str) ==
    LET parts == SplitColon(str, <<>>)
    IN  Arr([x \in 1..Len(parts) |-> ParseIntAt(parts[x], x - 1)])

\* str.split( ":" ).map( parseFloat )
ParseRun(str) ==
    LET parts == SplitColon(str, <<>>)
    IN  Arr([x \in 1..Len(parts) |-> ParseFloat(parts[x])])

\* the loop of collapse over the sorted values zs, at position x (z[ x - 1 ])
RECURSIVE CollapseLoop(_, _, _, _, _)
CollapseLoop(zs, x, str, prev, seq) ==
    IF x > Len(zs) + 1 THEN seq
    ELSE LET cur == IF x \in DOMAIN zs THEN zs[x] ELSE NaN
         IN  IF IsNext(zs, x, prev)
             THEN CollapseLoop(zs, x + 1, str \o <<Colon>> \o NumToString(zs[x]), cur, seq)
             ELSE CollapseLoop(zs, x + 1,
                      IF x \in DOMAIN zs /\ Truthy(zs[x])
                      THEN NumToString(zs[x]) ELSE StripLeadingColon(str),
                      cur,
                      Append(seq, ParseRun(StripLeadingColon(str))))

\* what collapse makes of a field that is an array with elements
CollapseField(v) ==
    LET zs == SortNum(SetOf(ConcatAll(v.e)))
    IN  Arr(CollapseLoop(zs, 2, NumToString(zs[1]), zs[1], <<>>))

\* j.match( /^_/ ): of the keys the model uses only _meta begins with an underscore
UnderscoreKey(f) == f \in {"_meta"}

\* collapse( p )
collapse(rep) ==
    [f \in DOMAIN rep |->
        IF UnderscoreKey(f) THEN rep[f]
        ELSE IF rep[f].k = "arr" /\ Len(rep[f].e) > 0 THEN CollapseField(rep[f])
        ELSE rep[f]]

-----------------------------------------------------------------------------
(* The calls.  input is the caller's argument, flag the second argument of *)
(* patterns and obj the second argument of xbar or of a filter, chosen     *)
(* when the function is called.  pc is where the caller                    *)
(* stands: "idle" before a call, "validated" after validate( input ),      *)
(* "iqr", "zscore", "modifiedZscore" after the call of that filter, "xbar"  *)
(* after xbar( input, obj ),                                               *)
(* "zoned" after new Zone( input ), "scan" inside the loop of patterns,    *)
(* "returned" holding a report in ret, "thrown" after the exception of     *)
(* validate or of reading data.data, "thrownStats" after an exception of   *)
(* simple-statistics, "thrownThreshold" after the exception zscore and     *)
(* modifiedZscore throw on their threshold, "iqr_index" after iqr of       *)
(* index.js and "thrownMedian" after its exception.                        *)
(* p is the report before any collapse, ncollapse the number of times      *)
(* collapse has been applied to it to give ret, prevret the report the     *)
(* last collapse was applied to.                                           *)

\* the 60-point series of the README
Reference ==
    <<42, 41, 45, 49, 44, 39, 47, 42, 69, 60, 59, 40, 39, 40, 18, 41, 48, 50, 48, 49,
      44, 49, 66, 62, 66, 43, 47, 43, 42, 45, 59, 61, 68, 45, 41, 42, 42, 37, 56, 61,
      56, 44, 39, 63, 64, 62, 87, 38, 42, 36, 34, 75, 72, 60, 37, 44, 43, 44, 48, 45>>

\* n zeros with a one at position pos
Spike(n, pos) == [x \in 1..n |-> IF x = pos THEN 1 ELSE 0]

\* zeros before position pos, ones from it
Step(n, pos) == [x \in 1..n |-> IF x < pos THEN 0 ELSE 1]

\* 0, 1, 2, ..., or its reverse
Ramp(n, up) == [x \in 1..n |-> IF up THEN x - 1 ELSE n - x]

\* 0, 1, 0, 1, ...
Alternation(n) == [x \in 1..n |-> (x - 1) % 2]

\* n-2, n-2, n-3, ..., 1, 0: a descent that starts with two equal values
Ledge(n) == [x \in 1..n |-> IF x = 1 THEN n - 2 ELSE n - x]

Shapes ==
    UNION {{Spike(n, pos) : pos \in 1..n} \cup {Step(n, pos) : pos \in 1..n}
             \cup {Ramp(n, TRUE), Ramp(n, FALSE), Alternation(n), Ledge(n)} : n \in 8..MaxLen}

Inputs ==
    UNION {[1..n -> SmallVals] : n \in 0..MaxSmallLen}
      \cup UNION {[1..n -> BinVals] : n \in 7..MaxBinLen}
      \cup Shapes
      \cup {Reference}

\* "12", "7x", " 3", "-2", "x", ""
Strings ==
    {Str(Digits(12)), Str(Digits(7) \o <<Ch("x", 0, NaN)>>),
     Str(<<Ch(" ", 0, NaN)>> \o Digits(3)), Str(<<Ch("-", 0, NaN)>> \o Digits(2)),
     Str(<<Ch("x", 0, NaN)>>), Str(<<>>)}

\* what an array handed to validate can hold
Elements == {IntNum(0), IntNum(7), NaN, Infinity, Null} \cup Strings

\* arguments that are no array of numbers: short arrays of arbitrary
\* elements, arrays of 4 numbers and numeric strings, values that are no
\* array, and objects with a data member
OtherInputs ==
    UNION {{Arr(e) : e \in [1..n -> Elements]} : n \in 0..MaxRawLen}
      \cup {Arr(e) : e \in [1..4 -> {IntNum(0), Str(Digits(12))}]}
      \cup {Null, Undef, NaN, IntNum(5), Str(Digits(12)), Obj(<<>>)}
      \cup {Obj(<<d>>) : d \in {Null, Arr(<<>>), Arr(<<Str(<<Ch("x", 0, NaN)>>)>>),
                                NumArr(<<0, 0, 0, 1>>), NumArr(Step(10, 4))}}

\* the windows a caller can put in a rule field of a report it builds itself
Windows == {Range(s, s + len - 1) : s \in 0..MaxIdx, len \in 1..MaxRunLen}

RunLists == UNION {[1..n -> Windows] : n \in 1..MaxRuns}

\* a report built by the caller: that of a fixed sample, with runs as its
\* charlie field and the first index of every run as its alpha field
HandMade(runs) ==
    [NewReport(<<0, 0, 0, 1>>) EXCEPT
        !["charlie"] = Arr([x \in 1..Len(runs) |-> NumArr(runs[x])]),
        !["alpha"] = Arr([x \in 1..Len(runs) |-> IntNum(runs[x][1])])]

InitCall ==
    /\ input \in {NumArr(s) : s \in Inputs} \cup OtherInputs
    /\ flag = FALSE
    /\ pc = "idle"
    /\ p = <<>>
    /\ ret = <<>>

InitReport ==
    /\ input = Undef
    /\ flag = FALSE
    /\ pc = "returned"
    /\ \E runs \in RunLists : p = HandMade(runs)
    /\ ret = p

Init ==
    /\ InitCall \/ InitReport
    /\ data = <<>>
    /\ z = NoZone
    /\ i = 0
    /\ ncollapse = 0
    /\ prevret = <<>>
    /\ obj = <<>>

\* the model follows Zone and patterns on the arguments that validate
\* rejects or turns into finite numbers only
Plain(arg) == ~validate(arg).ok \/ AllFinite(validate(arg).v)

\* validate( input )
ValidateCall ==
    /\ pc = "idle"
    /\ LET v == validate(input)
       IN  IF v.ok
           THEN /\ ret' = Arr(v.v)
                /\ pc' = "validated"
           ELSE /\ pc' = "thrown"
                /\ UNCHANGED ret
    /\ input' = validate(input).arg
    /\ UNCHANGED <<flag, data, z, p, i, ncollapse, prevret, obj>>

\* new Zone( input )
NewZone ==
    /\ pc = "idle"
    /\ Plain(input)
    /\ LET v == validate(input)
       IN  IF v.ok
           THEN /\ data' = Values(v.v)
                /\ z' = Zone(Values(v.v))
                /\ pc' = "zoned"
           ELSE /\ pc' = "thrown"
                /\ UNCHANGED <<data, z>>
    /\ input' = validate(input).arg
    /\ UNCHANGED <<flag, p, i, ret, ncollapse, prevret, obj>>

\* the second arguments of the filters: left out, a number, and values that
\* are no finite number
Thresholds == {Undef, IntNum(2), NaN, Null, Infinity, Str(<<Ch("x", 0, NaN)>>)}

\* iqr( input, obj )
IqrCall ==
    /\ pc = "idle"
    /\ Plain(input)
    /\ \E val \in Thresholds :
           /\ obj' = val
           /\ LET v == validate(input)
              IN  IF v.ok
                  THEN /\ ret' = NumArr(iqrVal(Values(v.v), val).v)
                       /\ pc' = "iqr"
                  ELSE /\ pc' = "thrown"
                       /\ UNCHANGED ret
    /\ input' = validate(input).arg
    /\ UNCHANGED <<flag, data, z, p, i, ncollapse, prevret>>

\* zscore( input, obj )
ZscoreCall ==
    /\ pc = "idle"
    /\ Plain(input)
    /\ \E threshold \in Thresholds :
           /\ obj' = threshold
           /\ LET v == validate(input)
                  res == zscoreThreshold(Values(v.v), threshold)
              IN  IF v.ok /\ res.ok
                  THEN /\ ret' = NumArr(res.v)
                       /\ pc' = "zscore"
                  ELSE /\ pc' = IF v.ok THEN "thrownThreshold" ELSE "thrown"
                       /\ UNCHANGED ret
    /\ input' = validate(input).arg
    /\ UNCHANGED <<flag, data, z, p, i, ncollapse, prevret>>

\* modifiedZscore( input, obj )
ModifiedZscoreCall ==
    /\ pc = "idle"
    /\ Plain(input)
    /\ \E threshold \in Thresholds :
           /\ obj' = threshold
           /\ LET v == validate(input)
                  res == modifiedZscoreThreshold(Values(v.v), threshold)
              IN  IF v.ok /\ res.ok
                  THEN /\ ret' = NumArr(res.v)
                       /\ pc' = "modifiedZscore"
                  ELSE /\ pc' = IF v.ok THEN "thrownThreshold" ELSE "thrown"
                       /\ UNCHANGED ret
    /\ input' = validate(input).arg
    /\ UNCHANGED <<flag, data, z, p, i, ncollapse, prevret>>

\* the model follows xbar on arrays of numbers
IsNumberArray(arg) == arg.k = "arr" /\ \A x \in 1..Len(arg.e) : arg.e[x].k = "num"

\* the second arguments of xbar: size given or left to its default, front
\* given; d is left to its default
Objects == [size : (1..MaxSize) \cup {DefaultSize}, front : BOOLEAN]

\* xbar( input, obj )
XbarCall ==
    /\ pc = "idle"
    /\ IsNumberArray(input)
    /\ obj' \in Objects
    /\ ret' = xbar(Values(input.e), obj'.size, obj'.front)
    /\ pc' = "xbar"
    /\ UNCHANGED <<input, flag, data, z, p, i, ncollapse, prevret>>

\* the factors handed to iqr of index.js: left out, or 2
Factors == {Undef, IntNum(2)}

\* iqr( input, obj ) of index.js, followed on arrays of numbers; ss.median
\* throws on the empty array
IndexIqrCall ==
    /\ pc = "idle"
    /\ IsNumberArray(input)
    /\ \E factor \in Factors :
           /\ obj' = factor
           /\ IF Len(input.e) = 0
              THEN /\ pc' = "thrownMedian"
                   /\ UNCHANGED ret
              ELSE /\ \E _data \in {Values(input.e)} : ret' = iqr_index(_data, factor)
                   /\ pc' = "iqr_index"
    /\ UNCHANGED <<input, flag, data, z, p, i, ncollapse, prevret>>

\* what the size option of xbar can be: left out, a whole number that is
\* positive, 0 or negative, and values that are no number
Sizes == {Undef, IntNum(-2), IntNum(-1), IntNum(0), IntNum(1), IntNum(2), NaN, Null,
          Str(<<Ch("x", 0, NaN)>>)}

XbarObjects == [size : Sizes, front : BOOLEAN]

\* parseInt( size, 10 ) for a whole number or a value that is no number
parseInt10(v) ==
    CASE v.k = "num" -> v
      [] v.k = "str" -> ParseFloat(v.e)
      [] v.k \in {"nan", "inf", "null", "undefined"} -> NaN

\* num of xbar for the options o
XbarNum(o) == parseInt10(IF o.size = Undef THEN IntNum(DefaultSize) ELSE o.size)

\* a relative index of slice and splice: a negative one counts from the end
RelIndex(n, k) == IF k < 0 THEN (IF n + k < 0 THEN 0 ELSE n + k) ELSE IF k > n THEN n ELSE k

\* arr.slice( start, end )
JsSlice(arr, start, end) ==
    SubSeq(arr, RelIndex(Len(arr), start) + 1, RelIndex(Len(arr), end))

\* arr after arr.splice( start, count )
Splice(arr, start, count) ==
    LET from == RelIndex(Len(arr), start)
    IN  SubSeq(arr, 1, from) \o SubSeq(arr, from + count + 1, Len(arr))

\* xbar( input, obj ) up to its loop: _arr is kept in data.  The remainder
\* _arr.length % num is NaN for a num that is 0 or NaN, and then nothing is
\* spliced
XbarBegin ==
    /\ pc = "idle"
    /\ IsNumberArray(input)
    /\ \E o \in XbarObjects :
           /\ obj' = o
           /\ LET num == XbarNum(o)
                  arr == Values(input.e)
                  remainder == IF num.k = "num" /\ num.a # 0
                               THEN Len(arr) % Abs(num.a) ELSE 0
              IN  data' = IF remainder # 0
                          THEN Splice(arr, IF o.front THEN 0 ELSE -remainder, remainder)
                          ELSE arr
    /\ i' = 0
    /\ ret' = Arr(<<>>)
    /\ pc' = "xbarLoop"
    /\ UNCHANGED <<input, flag, z, p, ncollapse, prevret>>

\* one pass of the loop of xbar.  With a num that is NaN the pass makes i NaN
\* and the test i < _arr.length false: the loop is left.  out is followed up
\* to MaxOut values
XbarStep ==
    /\ pc = "xbarLoop"
    /\ i < Len(data)
    /\ Len(ret.e) < MaxOut
    /\ LET num == XbarNum(obj)
       IN  IF num.k # "num"
           THEN /\ ret' = Arr(Append(ret.e, NaN))
                /\ pc' = "xbar"
                /\ UNCHANGED i
           ELSE /\ LET sum == SumSeq(JsSlice(data, i, i + num.a))
                   IN  ret' = Arr(Append(ret.e,
                                 IF num.a = 0 THEN NaN
                                 ELSE IF num.a > 0 THEN ToFixedParse(sum, num.a)
                                 ELSE ToFixedParse(-sum, -num.a)))
                /\ i' = i + num.a
                /\ UNCHANGED pc
    /\ UNCHANGED <<input, flag, obj, data, z, p, ncollapse, prevret>>

\* the end of the loop of xbar: return out
XbarReturn ==
    /\ pc = "xbarLoop"
    /\ ~(i < Len(data))
    /\ pc' = "xbar"
    /\ UNCHANGED <<input, flag, obj, data, z, p, i, ret, ncollapse, prevret>>

\* data.data if the argument has a truthy member data, else the argument
PatternsArg(arg) ==
    IF arg.k = "obj" /\ arg.e # <<>> /\ Truthy(arg.e[1]) THEN arg.e[1] ELSE arg

\* patterns( input, flag ) up to the loop: reading data.data throws on null
\* and undefined, validate throws on what is no array with a finite number,
\* ss.sampleSkewness on fewer than 3 values and ss.sampleKurtosis on fewer
\* than 4
PatternsBegin ==
    /\ pc = "idle"
    /\ Plain(PatternsArg(input))
    /\ LET v == validate(PatternsArg(input))
       IN  IF input.k \notin {"null", "undefined"} /\ v.ok /\ Len(v.v) >= 4
           THEN /\ data' = Values(v.v)
                /\ z' = Zone(Values(v.v))
                /\ p' = NewReport(Values(v.v))
                /\ pc' = "scan"
           ELSE /\ pc' = IF input.k \in {"null", "undefined"} \/ ~v.ok
                         THEN "thrown" ELSE "thrownStats"
                /\ UNCHANGED <<data, z, p>>
    /\ input' = IF input.k \in {"null", "undefined"} THEN input
                 ELSE IF PatternsArg(input) = input THEN validate(input).arg
                 ELSE Obj(<<validate(PatternsArg(input)).arg>>)
    /\ flag' \in BOOLEAN
    /\ i' = 0
    /\ UNCHANGED <<ret, ncollapse, prevret, obj>>

\* one pass of the loop of patterns
ScanStep ==
    /\ pc = "scan"
    /\ i < ScanLength(z)
    /\ p' = ScanAt(p, z, data, i)
    /\ i' = i + 1
    /\ UNCHANGED <<input, flag, pc, data, z, ret, ncollapse, prevret, obj>>

\* the end of patterns: the poisson table, then the report or its collapse
PatternsReturn ==
    /\ pc = "scan"
    /\ i >= ScanLength(z)
    /\ p' = WithPoisson(p, data)
    /\ IF flag
       THEN /\ ret' = collapse(p')
            /\ prevret' = p'
            /\ ncollapse' = 1
       ELSE /\ ret' = p'
            /\ UNCHANGED <<prevret, ncollapse>>
    /\ pc' = "returned"
    /\ UNCHANGED <<input, flag, data, z, i, obj>>

\* collapse( ret ), called by the holder of a report
CollapseReport ==
    /\ pc = "returned"
    /\ ncollapse < MaxCollapse
    /\ ret' = collapse(ret)
    /\ prevret' = ret
    /\ ncollapse' = ncollapse + 1
    /\ UNCHANGED <<input, flag, pc, data, z, p, i, obj>>

Next ==
    \/ ValidateCall
    \/ IqrCall
    \/ ZscoreCall
    \/ ModifiedZscoreCall
    \/ XbarCall
    \/ IndexIqrCall
    \/ NewZone
    \/ PatternsBegin
    \/ ScanStep
    \/ PatternsReturn
    \/ CollapseReport

Spec == Init /\ [][Next]_vars

\* xbar alone, followed pass by pass on the arrays over {0, 1} of fewer than
\* MaxOut elements; a call that has begun goes on
InitXbar ==
    /\ input \in {NumArr(s) : s \in UNION {[1..n -> BinVals] : n \in 0..(MaxOut - 1)}}
    /\ flag = FALSE
    /\ pc = "idle"
    /\ p = <<>>
    /\ ret = <<>>
    /\ data = <<>>
    /\ z = NoZone
    /\ i = 0
    /\ ncollapse = 0
    /\ prevret = <<>>
    /\ obj = <<>>

NextXbar ==
    \/ XbarBegin
    \/ XbarStep
    \/ XbarReturn

SpecXbar == InitXbar /\ [][NextXbar]_vars /\ WF_vars(NextXbar)

-----------------------------------------------------------------------------
(* What the claims speak of *)

\* a report came back from patterns
FromPatterns == pc = "returned" /\ data # <<>>

\* ret is the report of patterns( input, false ), not collapsed since
Uncollapsed == FromPatterns /\ ncollapse = 0

\* ret is collapse( prevret )
Collapsed == pc = "returned" /\ ncollapse >= 1

\* the integers of an array of numbers (-1 for what is no number)
Ints(v) == [x \in 1..Len(v.e) |-> IF v.e[x].k = "num" /\ IsInteger(v.e[x])
                                  THEN v.e[x].a \div v.e[x].d ELSE -1]

\* the runs of a rule field; an index standing alone is a run of one
RunsOf(v) == [x \in 1..Len(v.e) |-> IF v.e[x].k = "arr" THEN Ints(v.e[x])
                                    ELSE Ints(Arr(<<v.e[x]>>))]

\* the indices that occur in a rule field
IdxSet(v) == UNION {{RunsOf(v)[x][y] : y \in 1..Len(RunsOf(v)[x])} : x \in 1..Len(v.e)}

WindowLen(f) ==
    CASE f = "alpha" -> 1 [] f = "bravo" -> 3 [] f = "charlie" -> 5 [] f = "delta" -> 7
      [] f = "echo" -> 7 [] f = "foxtrot" -> 8 [] f = "golf" -> 15 [] f = "hotel" -> 14

\* the zone label and the value of the sample point of index j (from 0)
Lab(j) == z.dataZones[j + 1]

Val(j) == data[j + 1]

\* the violation condition of rule f on the window that starts at index j
Violation(f, j) ==
    CASE f = "alpha" -> Lab(j) = "X"
      [] f = "bravo" -> Cardinality({y \in j..(j + 2) : Lab(y) \in {"A", "X"}}) >= 2
      [] f = "charlie" -> Cardinality({y \in j..(j + 4) : Lab(y) # "C"}) >= 4
      [] f = "delta" ->
             \/ \A y \in j..(j + 6) : Len(data) * Val(y) > SumSeq(data)
             \/ \A y \in j..(j + 6) : Len(data) * Val(y) < SumSeq(data)
      [] f = "echo" ->
             \/ \A y \in j..(j + 5) : Val(y) < Val(y + 1)
             \/ \A y \in j..(j + 5) : Val(y) > Val(y + 1)
      [] f = "foxtrot" -> \A y \in j..(j + 7) : Lab(y) # "C"
      [] f = "golf" -> \A y \in j..(j + 14) : Lab(y) = "C"
      [] f = "hotel" ->
             /\ \A y \in j..(j + 12) : Val(y) # Val(y + 1)
             /\ \A y \in j..(j + 11) : (Val(y) < Val(y + 1)) # (Val(y + 1) < Val(y + 2))

\* the report rep holds, under rule f, the run of the window that starts at j
Reported(rep, f, j) ==
    IF f = "alpha" THEN \E x \in 1..Len(rep[f].e) : rep[f].e[x] = IntNum(j)
    ELSE \E x \in 1..Len(rep[f].e) : rep[f].e[x] = NumArr(Range(j, j + WindowLen(f) - 1))

-----------------------------------------------------------------------------
(* The claims *)

\* C1: patterns( sample, false ) evaluates every window start 0..n-L of every
\* rule: a window that satisfies the rule's violation condition has its run in
\* the rule's output, however large its start index is.
C1_EveryWindowReported ==
    Uncollapsed =>
        \A f \in RuleFields : \A j \in 0..(Len(data) - WindowLen(f)) :
            Violation(f, j) => Reported(ret, f, j)

\* C2: in the report of patterns( sample, false ), index j is in alpha if and
\* only if the zone label of sample point j is X.
C2_AlphaIffLabelX ==
    Uncollapsed =>
        \A j \in 0..(Len(data) - 1) : Reported(ret, "alpha", j) <=> Lab(j) = "X"

\* the report patterns itself returned: collapsed once if and only if flag
FirstReturn == FromPatterns /\ ncollapse = (IF flag THEN 1 ELSE 0)

\* C3: for the reference series alpha is [46] without collapse and [[46]] with
\* it, and bravo is empty in both modes.
C3_ReferenceAlphaBravo ==
    (FirstReturn /\ input = NumArr(Reference)) =>
        /\ ret["bravo"] = Arr(<<>>)
        /\ ret["alpha"] = IF flag THEN Arr(<<NumArr(<<46>>)>>) ELSE NumArr(<<46>>)

\* C4: for the reference series patterns( series, true ) gives exactly one
\* contiguous range for delta and exactly one for charlie, each in place of
\* several raw runs of the uncollapsed report.
C4_ReferenceDeltaCharlieOneRange ==
    (FirstReturn /\ input = NumArr(Reference) /\ flag) =>
        \A f \in {"delta", "charlie"} :
            /\ Len(p[f].e) >= 2
            /\ Len(ret[f].e) = 1
            /\ LET run == RunsOf(ret[f])[1]
               IN  run = Range(run[1], run[Len(run)])

\* C5: for a rule field whose runs hold non-negative indices, collapse gives
\* the union of the indices cut at every gap larger than 1: ranges of
\* consecutive integers, ascending, disjoint, no two of them adjacent, that
\* together hold exactly the indices of the runs.
C5_CollapseMaximalRanges ==
    Collapsed =>
        \A f \in RuleFields :
            Len(prevret[f].e) > 0 =>
                LET R == RunsOf(ret[f])
                IN  /\ \A x \in 1..Len(R) :
                           Len(R[x]) >= 1 /\ R[x] = Range(R[x][1], R[x][Len(R[x])])
                    /\ \A x \in 1..(Len(R) - 1) : R[x][Len(R[x])] + 1 < R[x + 1][1]
                    /\ IdxSet(ret[f]) = IdxSet(prevret[f])

\* collapse acted on runs given out of order, with a gap between them
C5_Witness ==
    /\ Collapsed
    /\ Len(prevret["charlie"].e) = 2
    /\ RunsOf(prevret["charlie"])[1][1] > RunsOf(prevret["charlie"])[2][1] + 2
    /\ Len(ret["charlie"].e) = 2

\* C6: collapse is idempotent on every report patterns can produce: every
\* field of collapse( collapse( r ) ) equals that of collapse( r ).
C6_CollapseIdempotent ==
    (FromPatterns /\ ncollapse = 2) => \A f \in Fields : ret[f] = prevret[f]

\* C7: for every rule the indices in the collapsed ranges are exactly the
\* indices in the uncollapsed runs.
C7_CollapseKeepsIndices ==
    Collapsed => \A f \in RuleFields : IdxSet(ret[f]) = IdxSet(p[f])

\* patterns found overlapping runs and the report was collapsed
C7_Witness ==
    /\ FromPatterns
    /\ ncollapse >= 1
    /\ Len(p["delta"].e) >= 2
    /\ Len(ret["delta"].e) = 1

\* C8: collapse changes only the eight rule fields: every other field of a
\* report of patterns has the same value after collapse as before.
C8_CollapseLeavesStatistics ==
    (FromPatterns /\ ncollapse = 1) => \A f \in Fields \ RuleFields : ret[f] = p[f]

\* C9: no run of a rule with window length L starts at an index j with
\* j + L > n, and no run holds an index outside 0..n-1.
C9_NoPartialWindow ==
    (pc \in {"scan", "returned"} /\ data # <<>>) =>
        \A f \in RuleFields : \A x \in 1..Len(p[f].e) :
            LET run == RunsOf(p[f])[x]
            IN  /\ run[1] + WindowLen(f) <= Len(data)
                /\ \A y \in 1..Len(run) : run[y] \in 0..(Len(data) - 1)

\* a sample of 8 points whose last full window of delta, the one that starts
\* at index 1, was reported, the window from index 2 being cut short
C9_Witness ==
    /\ FromPatterns
    /\ Len(data) = 8
    /\ Reported(p, "delta", 1)

\* C10: the Zone classifier gives exactly n labels, one per sample index in
\* the order of the sample, each of them A, B, C or X.
C10_OneLabelPerPoint ==
    (pc \in {"zoned", "scan", "returned"} /\ data # <<>>) =>
        /\ Len(z.dataZones) = Len(PatternsArg(input).e)
        /\ \A x \in 1..Len(PatternsArg(input).e) :
               /\ z.dataZones[x] \in {"A", "B", "C", "X"}
               /\ z.dataZones[x] = which(z.zones, data[x])

\* a sample was classified and all four labels occur
C10_Witness ==
    /\ pc = "zoned"
    /\ {z.dataZones[x] : x \in 1..Len(z.dataZones)} = {"A", "B", "C", "X"}

\* a sample was classified: z is the Zone built from data
Classified == pc \in {"zoned", "scan", "returned"} /\ data # <<>>

\* the bounds of zone A strictly contain those of B, and those of B those of C
\* (z.zones holds C, B, A in this order)
StrictlyNested ==
    /\ NumLt(z.zones[3].min, z.zones[2].min)
    /\ NumLt(z.zones[2].min, z.zones[1].min)
    /\ NumLt(z.zones[1].max, z.zones[2].max)
    /\ NumLt(z.zones[2].max, z.zones[3].max)

\* C11 as stated: for every valid sample the zone bounds are strictly nested,
\* A.min < B.min < C.min and C.max < B.max < A.max.
C11_ZoneBoundsStrictlyNested == Classified => StrictlyNested

\* C11 amended: the zone bounds are strictly nested for every valid sample
\* whose standard deviation is not 0; when it is 0 (all values equal, or a
\* single value) the six bounds all equal the mean.
C11_ZoneBoundsNested ==
    Classified =>
        IF NumLt(IntNum(0), z.std) THEN StrictlyNested
        ELSE \A x \in 1..3 : NumEq(z.zones[x].min, z.mean) /\ NumEq(z.zones[x].max, z.mean)

\* a sample with an irrational standard deviation was classified
C11_Witness ==
    /\ pc = "zoned"
    /\ Len(data) >= 3
    /\ z.std.b # 0
    /\ StrictlyNested

\* arg is not an array, is an empty array, or has no element that parses to
\* a finite number
Rejected(arg) ==
    \/ arg.k # "arr"
    \/ Len(arg.e) = 0
    \/ \A x \in 1..Len(arg.e) : ParseFloatOf(arg.e[x]).k # "num"

ConstantSample == \A x \in 1..Len(data) : data[x] = data[1]

\* the value is NaN, or an array or object that holds NaN
HoldsNaN(v) ==
    \/ v.k = "nan"
    \/ \E x \in 1..Len(v.e) :
           \/ v.e[x].k = "nan"
           \/ \E y \in 1..Len(v.e[x].e) : v.e[x].e[y].k = "nan"

\* C13: for a constant sample (standard deviation 0) no field of the report
\* patterns returns holds NaN, the result of an undefined division by zero.
C13_ConstantSampleNoNaN ==
    (FirstReturn /\ ConstantSample) => \A f \in Fields : ~HoldsNaN(ret[f])

\* the validated sample of the call
Sample == Values(validate(input).v)

\* the values the filter that was called counts as outliers
OutlierValues ==
    LET out == CASE pc = "iqr" -> iqrVal(Sample, obj).v
                 [] pc = "zscore" -> zscoreThreshold(Sample, obj).v
                 [] pc = "modifiedZscore" -> modifiedZscoreThreshold(Sample, obj).v
    IN  {out[y] : y \in 1..Len(out)}

\* C14: iqr, zscore and modifiedZscore each return an array of true/false
\* values as long as the data, true at position x if and only if data[x] is an
\* outlier under that method.
C14_FiltersReturnFlags ==
    pc \in {"iqr", "zscore", "modifiedZscore"} =>
        /\ Len(ret.e) = Len(Sample)
        /\ \A x \in 1..Len(Sample) : ret.e[x] = Bool(Sample[x] \in OutlierValues)

\* the k-th block of size consecutive elements of arr, after the first
\* (front) or the last Len(arr) % size elements are dropped
Block(arr, o, k) ==
    LET offset == IF o.front THEN Len(arr) % o.size ELSE 0
    IN  [y \in 1..o.size |-> arr[offset + (k - 1) * o.size + y]]

ReportedIffViolation(f) ==
    \A j \in 0..(Len(data) - 1) :
        Reported(ret, f, j) <=> (j + WindowLen(f) - 1 <= Len(data) - 1 /\ Violation(f, j))

\* C16: in the report of patterns( sample, false ), bravo contains the run
\* [j, j+1, j+2] if and only if j+2 <= n-1 and at least 2 of the zone labels
\* of the points j, j+1, j+2 are A or X.
C16_BravoIff == Uncollapsed => ReportedIffViolation("bravo")

\* C17: in the report of patterns( sample, false ), charlie contains the run
\* [j..j+4] if and only if j+4 <= n-1 and at least 4 of the zone labels of the
\* points j..j+4 are different from C.
C17_CharlieIff == Uncollapsed => ReportedIffViolation("charlie")

\* C18: in the report of patterns( sample, false ), foxtrot contains the run
\* [j..j+7] if and only if j+7 <= n-1 and none of the zone labels of the
\* points j..j+7 is C.
C18_FoxtrotIff == Uncollapsed => ReportedIffViolation("foxtrot")

\* C19: in the report of patterns( sample, false ), golf contains the run
\* [j..j+14] if and only if j+14 <= n-1 and the zone labels of all 15 points
\* j..j+14 are C.
C19_GolfIff == Uncollapsed => ReportedIffViolation("golf")

\* C20: every run patterns reports under echo is 7 consecutive indices whose
\* values are strictly increasing at every step or strictly decreasing at
\* every step; a window whose first two values are equal is never reported.
C20_EchoStrictlyMonotonic ==
    FromPatterns =>
        \A x \in 1..Len(p["echo"].e) :
            LET run == RunsOf(p["echo"])[x]
            IN  /\ Len(run) = 7
                /\ run = Range(run[1], run[1] + 6)
                /\ \/ \A y \in run[1]..(run[1] + 5) : Val(y) < Val(y + 1)
                   \/ \A y \in run[1]..(run[1] + 5) : Val(y) > Val(y + 1)

\* C21: every run patterns reports under hotel is 14 consecutive indices in
\* which no two adjacent values are equal and every step goes in the opposite
\* direction to the step before it.
C21_HotelAlternates ==
    (pc \in {"scan", "returned"} /\ data # <<>>) =>
        \A x \in 1..Len(p["hotel"].e) :
            LET run == RunsOf(p["hotel"])[x]
            IN  /\ Len(run) = 14
                /\ run = Range(run[1], run[1] + 13)
                /\ \A y \in run[1]..(run[1] + 12) : Val(y) # Val(y + 1)
                /\ \A y \in run[1]..(run[1] + 11) :
                       (Val(y) < Val(y + 1)) # (Val(y + 1) < Val(y + 2))

\* patterns reported the alternating window that starts at index 2
C21_Witness ==
    /\ FromPatterns
    /\ Reported(p, "hotel", 2)

\* C22: every run patterns reports under delta is 7 consecutive indices whose
\* values are all strictly greater than the sample mean or all strictly less
\* than it, the side being that of the first point; a window whose first value
\* equals the mean is never reported.
C22_DeltaOneSide ==
    (pc \in {"scan", "returned"} /\ data # <<>>) =>
        \A x \in 1..Len(p["delta"].e) :
            LET run == RunsOf(p["delta"])[x]
            IN  /\ Len(run) = 7
                /\ run = Range(run[1], run[1] + 6)
                /\ Len(data) * Val(run[1]) # SumSeq(data)
                /\ \A y \in run[1]..(run[1] + 6) :
                       (Len(data) * Val(y) > SumSeq(data))
                           = (Len(data) * Val(run[1]) > SumSeq(data))
                /\ \A y \in run[1]..(run[1] + 6) : Len(data) * Val(y) # SumSeq(data)

\* patterns reported a window above the mean in a sample that also has
\* values below the mean and a value equal to it
C22_Witness ==
    /\ FromPatterns
    /\ Reported(p, "delta", 0)
    /\ Len(data) * Val(0) > SumSeq(data)
    /\ \E y \in 0..(Len(data) - 1) : Len(data) * Val(y) < SumSeq(data)
    /\ \E y \in 0..(Len(data) - 1) : Len(data) * Val(y) = SumSeq(data)

\* min <= v < max for the zone of index k of z.zones (C, B, A)
InZone(k, v) == SignDiff(IntNum(v), z.zones[k].min, 0) >= 0
                    /\ SignDiff(IntNum(v), z.zones[k].max, 0) < 0

\* the name of zone k, X after the last zone
NameAfter(k) == IF k <= 3 THEN ZoneNames[k] ELSE "X"

\* C23: which( v ) is the name of the first zone, in the order C, B, A, with
\* min <= v < max, and X when there is none; so, the standard deviation being
\* positive, a value at mean + k*sigma is not in zone k (it gets the next
\* label outward) and a value at mean - k*sigma is in zone k.
C23_WhichHalfOpen ==
    Classified =>
        \A x \in 1..Len(data) :
            /\ z.dataZones[x] = (IF InZone(1, data[x]) THEN "C"
                                 ELSE IF InZone(2, data[x]) THEN "B"
                                 ELSE IF InZone(3, data[x]) THEN "A" ELSE "X")
            /\ NumLt(IntNum(0), z.std) =>
                   \A k \in 1..3 :
                       /\ NumEq(IntNum(data[x]), z.zones[k].max)
                              => z.dataZones[x] = NameAfter(k + 1)
                       /\ NumEq(IntNum(data[x]), z.zones[k].min)
                              => z.dataZones[x] = NameAfter(k)

\* a sample was classified that has a value at mean - 2*sigma, the lower
\* bound of zone B
C23_Witness ==
    /\ pc = "zoned"
    /\ NumLt(IntNum(0), z.std)
    /\ \E x \in 1..Len(data) : NumEq(IntNum(data[x]), z.zones[2].min)

\* C24: in the uncollapsed report the runs of each rule stand in strictly
\* increasing order of their start index (so no window start gives two runs to
\* one rule), and each run lists its indices in ascending order.
C24_RunsInStartOrder ==
    (pc \in {"scan", "returned"} /\ data # <<>>) =>
        \A f \in RuleFields :
            LET R == RunsOf(p[f])
            IN  /\ \A x \in 1..(Len(R) - 1) : R[x][1] < R[x + 1][1]
                /\ \A x \in 1..Len(R) : \A y \in 1..(Len(R[x]) - 1) : R[x][y] < R[x][y + 1]

\* patterns returned an uncollapsed report with three runs of echo and two
\* of delta
C24_Witness ==
    /\ Uncollapsed
    /\ Len(ret["echo"].e) = 3
    /\ Len(ret["delta"].e) = 2

\* the second argument of the filter was given and is no finite number
InvalidThreshold == obj \in {NaN, Null, Infinity, Str(<<Ch("x", 0, NaN)>>)}

\* C25: a call of iqr, zscore or modifiedZscore with a threshold or factor
\* that was given and is no finite number (NaN, null, a non-numeric string,
\* Infinity) throws: none returns a result.
C25_InvalidThresholdThrows ==
    pc \in {"iqr", "zscore", "modifiedZscore"} => ~InvalidThreshold

\* C26: validate throws whenever the array holds an element that is no
\* number and no numeric string, so every array it returns consists of finite
\* numbers only.
C26_ValidateAllFinite == pc = "validated" => AllFinite(ret.e)

\* C27: patterns and the Zone constructor never modify the caller's sample:
\* after the call, whether it returned or threw, input (the array handed in,
\* or the object that holds it as data) has the same elements in the same
\* order as before.  Every step of new Zone and of patterns ends at "zoned",
\* "scan", "returned", "thrown" or "thrownStats".
C27_CallerSampleUnchanged ==
    [][pc' \in {"zoned", "scan", "returned", "thrown", "thrownStats"} => input' = input]_vars

\* patterns returned a report for an array that holds a numeric string,
\* which validate converted in its own copy
C27_Witness ==
    /\ FromPatterns
    /\ input.k = "arr"
    /\ \E x \in 1..Len(input.e) : input.e[x].k = "str" /\ data[x] = 12

\* C28: iqr( data, f ) of index.js returns an array as long as data that is
\* true at position x if and only if data[x] < Q1 - f*(Q3 - Q1) or
\* data[x] > Q3 + f*(Q3 - Q1), Q1 and Q3 being the medians of the lower and
\* the upper half of the data sorted in ascending numeric order, f 1.5 by
\* default.
C28_IndexIqrFlags ==
    pc = "iqr_index" =>
        ret = Flags(Values(input.e), HalfMedians(SortAsc(Values(input.e))),
                    IF obj = Undef THEN Rat(3, 2) ELSE obj)

\* C29: when the standard deviation of the sample is 0 (all values equal)
\* the three zones have min = max = mean, and which labels every sample point
\* X: no point is labelled C, B or A.
C29_ZeroDeviationAllX ==
    (Classified /\ NumEq(z.std, IntNum(0))) =>
        /\ \A k \in 1..3 : z.zones[k].min = z.mean /\ z.zones[k].max = z.mean
        /\ \A x \in 1..Len(data) : z.dataZones[x] = "X"

\* a sample of three equal values or more was classified
C29_Witness ==
    /\ pc = "zoned"
    /\ Len(data) >= 3
    /\ ConstantSample
    /\ z.std = IntNum(0)

\* C30: xbar terminates for every array and every options object, a size
\* that is 0, negative or no number included: every pass of its loop that
\* does not leave the loop takes i nearer to the end of _arr.  (A pass that
\* leaves i where it was or takes it back leaves the test i < _arr.length
\* true, and the same pass follows for ever.)
C30_XbarTerminates == [][(pc = "xbarLoop" /\ pc' = "xbarLoop") => i' > i]_vars

=============================================================================
